---- MODULE Spec2Model ----
(***************************************************************************)
(* The rules engine of resistance_bot/game.py: Vote, Round, GameInstance.  *)
(* A GameInstance is the record g = [state, players, spies, rounds,        *)
(* leader_idx]; every method is an operator from g (and its arguments) to  *)
(* the record [g |-> the object after the call, err |-> a GameError was    *)
(* raised].  A raise leaves the object as it is at the raising statement.  *)
(***************************************************************************)
EXTENDS Integers, Sequences, FiniteSets, TLC

\* ------------------------------------------------------------------ bounds
\* Users who register; the k-th user to register is called k. One more
\* user, Stranger, calls the engine without ever registering.
NRegistrants == 5
\* Party proposals (Vote objects) made during one game.
MaxVotes == 7
\* Users who register in the games of SpecTable, one more than MAX_PLAYERS.
MaxRegistrants == 11

\* --------------------------------------------------------------- constants
MIN_PLAYERS == 5
MAX_PLAYERS == 10

PARTY_SIZES ==
  [n \in 5..10 |->
     CASE n = 5 -> <<2, 3, 2, 3, 3>>
       [] n = 6 -> <<2, 3, 4, 3, 4>>
       [] n = 7 -> <<2, 3, 3, 4, 4>>
       [] n = 8 -> <<3, 4, 4, 5, 5>>
       [] n = 9 -> <<3, 4, 4, 5, 5>>
       [] n = 10 -> <<3, 4, 4, 5, 5>>]

WIN_LIMIT == 3
VOTE_LIMIT == 5
MIN_2IN4TH == 7

\* GameState
NOT_STARTED == "NOT_STARTED"
PROPOSAL_PENDING == "PROPOSAL_PENDING"
PARTY_VOTE_IN_PROGRESS == "PARTY_VOTE_IN_PROGRESS"
PARTY_VOTE_RESULTS == "PARTY_VOTE_RESULTS"
MISSION_VOTE_IN_PROGRESS == "MISSION_VOTE_IN_PROGRESS"
MISSION_VOTE_RESULTS == "MISSION_VOTE_RESULTS"
GAME_OVER == "GAME_OVER"

GameState ==
  {NOT_STARTED, PROPOSAL_PENDING, PARTY_VOTE_IN_PROGRESS, PARTY_VOTE_RESULTS,
   MISSION_VOTE_IN_PROGRESS, MISSION_VOTE_RESULTS, GAME_OVER}

\* Optional[bool]: the three values a Python expression of that type takes.
None == "None"
True == "True"
False == "False"

Stranger == NRegistrants + 1
Users == 1..Stranger

\* ------------------------------------------------------------ Python lists
\* x in list
In(x, list) == \E i \in 1..Len(list) : list[i] = x

\* list[idx] with Python's negative indices
Item(list, idx) == IF idx < 0 THEN list[Len(list) + idx + 1] ELSE list[idx + 1]

\* list(d.values()).count(value) for a dict d
count(d, value) == Cardinality({k \in DOMAIN d : d[k] = value})

\* d[key] = value
SetItem(d, key, value) ==
  [k \in (DOMAIN d) \cup {key} |-> IF k = key THEN value ELSE d[k]]

\* {}
EmptyDict == [k \in {} |-> TRUE]

\* --------------------------------------------------------------- class Vote
Vote(party) == [party |-> party, ballots |-> EmptyDict]

\* Vote.outcome that lets a tie pass.
Vote_outcome_ge(v) == count(v.ballots, TRUE) >= count(v.ballots, FALSE)

Vote_outcome(v) == count(v.ballots, TRUE) > count(v.ballots, FALSE)

\* -------------------------------------------------------------- class Round
Round(winning_count) ==
  [winning_count |-> winning_count, votes |-> << >>, ballots |-> EmptyDict]

last_vote(r) == IF Len(r.votes) > 0 THEN r.votes[Len(r.votes)] ELSE None

\* can_vote with the limit off by one.
can_vote_le(r) == Len(r.votes) <= VOTE_LIMIT

can_vote(r) == Len(r.votes) < VOTE_LIMIT

Round_outcome(r) ==
  IF ~can_vote(r) THEN FALSE
  ELSE count(r.ballots, FALSE) < r.winning_count

\* ------------------------------------------------------- class GameInstance
GameInstance ==
  [state |-> NOT_STARTED, players |-> << >>, spies |-> << >>,
   rounds |-> << >>, leader_idx |-> -1]

\* raise GameError(message) at a statement where the object is g, and a
\* return from the method.
Raise(g, message) == [g |-> g, err |-> message]
Return(g) == [g |-> g, err |-> None]

current_round(g) ==
  IF g.state \notin {NOT_STARTED, GAME_OVER}
  THEN g.rounds[Len(g.rounds)] ELSE None

current_vote(g) ==
  IF g.state \in {PARTY_VOTE_IN_PROGRESS, PARTY_VOTE_RESULTS}
  THEN last_vote(current_round(g)) ELSE None

current_party(g) ==
  IF g.state \in {PARTY_VOTE_IN_PROGRESS, PARTY_VOTE_RESULTS,
                  MISSION_VOTE_IN_PROGRESS, MISSION_VOTE_RESULTS}
  THEN last_vote(current_round(g)).party ELSE None

current_party_size(g) ==
  IF g.state \notin {NOT_STARTED, GAME_OVER}
  THEN PARTY_SIZES[Len(g.players)][Len(g.rounds)] ELSE None

current_winning_count(g) ==
  IF g.state \notin {NOT_STARTED, GAME_OVER}
  THEN current_round(g).winning_count ELSE None

leader(g) ==
  IF g.state \notin {NOT_STARTED, GAME_OVER}
  THEN Item(g.players, g.leader_idx) ELSE None

outcome(g) ==
  LET resistance_wins ==
        Cardinality({i \in 1..Len(g.rounds) : Round_outcome(g.rounds[i])})
      spy_wins ==
        Cardinality({i \in 1..Len(g.rounds) : ~Round_outcome(g.rounds[i])})
  IN IF resistance_wins >= WIN_LIMIT THEN True
     ELSE IF spy_wins >= WIN_LIMIT THEN False
     ELSE None

\* random.sample(population, k): rnd is the order the generator draws the
\* positions of population in; the sample is the elements at the first k.
random_sample(population, k, rnd) == [i \in 1..k |-> population[rnd[i]]]

\* _assign_spies with the spy count rounded down.
assign_spies_floor(g, rnd) ==
  LET spy_count == Len(g.players) \div 3
  IN [g EXCEPT !.spies = random_sample(g.players, spy_count, rnd)]

assign_spies(g, rnd) ==
  LET spy_count == (Len(g.players) + 2) \div 3
  IN [g EXCEPT !.spies = random_sample(g.players, spy_count, rnd)]

\* _next_leader without the wrap at the end of the table.
next_leader_no_wrap(g) == [g EXCEPT !.leader_idx = g.leader_idx + 1]

next_leader(g) ==
  [g EXCEPT !.leader_idx = (g.leader_idx + 1) % Len(g.players)]

\* _next_round_or_gameover that opens a round whatever the outcome.
next_round_or_gameover_always(g) ==
  LET winning_count ==
        IF Len(g.players) >= MIN_2IN4TH /\ Len(g.rounds) = 3
        THEN 2 ELSE 1
  IN [g EXCEPT !.rounds = Append(@, Round(winning_count)),
               !.state = PROPOSAL_PENDING]

next_round_or_gameover(g) ==
  IF outcome(g) = None
  THEN LET winning_count ==
             IF Len(g.players) >= MIN_2IN4TH /\ Len(g.rounds) = 3
             THEN 2 ELSE 1
       IN [g EXCEPT !.rounds = Append(@, Round(winning_count)),
                    !.state = PROPOSAL_PENDING]
  ELSE [g EXCEPT !.state = GAME_OVER]

\* next_state that passes the lead on when it starts the game.
next_state_rotate_at_start(g, rnd) ==
  IF g.state = NOT_STARTED
  THEN IF ~(MIN_PLAYERS <= Len(g.players) /\ Len(g.players) <= MAX_PLAYERS)
       THEN Raise(g, "The number of players must be between 5 and 10!")
       ELSE Return(next_round_or_gameover(next_leader(assign_spies(g, rnd))))
  ELSE IF g.state = PARTY_VOTE_RESULTS
  THEN IF Vote_outcome(current_vote(g))
       THEN Return([g EXCEPT !.state = MISSION_VOTE_IN_PROGRESS])
       ELSE LET g1 == next_leader(g)
            IN IF can_vote(current_round(g1))
               THEN Return([g1 EXCEPT !.state = PROPOSAL_PENDING])
               ELSE Return(next_round_or_gameover(g1))
  ELSE IF g.state = MISSION_VOTE_RESULTS
  THEN Return(next_round_or_gameover(next_leader(g)))
  ELSE Raise(g, "Current game state is changed automatically.")

\* next_state that sends the party on its mission after a rejection.
next_state_mission_on_rejection(g, rnd) ==
  IF g.state = NOT_STARTED
  THEN IF ~(MIN_PLAYERS <= Len(g.players) /\ Len(g.players) <= MAX_PLAYERS)
       THEN Raise(g, "The number of players must be between 5 and 10!")
       ELSE Return(next_round_or_gameover(assign_spies(g, rnd)))
  ELSE IF g.state = PARTY_VOTE_RESULTS
  THEN IF ~Vote_outcome(current_vote(g))
       THEN Return([g EXCEPT !.state = MISSION_VOTE_IN_PROGRESS])
       ELSE LET g1 == next_leader(g)
            IN IF can_vote(current_round(g1))
               THEN Return([g1 EXCEPT !.state = PROPOSAL_PENDING])
               ELSE Return(next_round_or_gameover(g1))
  ELSE IF g.state = MISSION_VOTE_RESULTS
  THEN Return(next_round_or_gameover(next_leader(g)))
  ELSE Raise(g, "Current game state is changed automatically.")

\* next_state that passes the lead on after an approved vote as well.
next_state_rotate_on_approval(g, rnd) ==
  IF g.state = NOT_STARTED
  THEN IF ~(MIN_PLAYERS <= Len(g.players) /\ Len(g.players) <= MAX_PLAYERS)
       THEN Raise(g, "The number of players must be between 5 and 10!")
       ELSE Return(next_round_or_gameover(assign_spies(g, rnd)))
  ELSE IF g.state = PARTY_VOTE_RESULTS
  THEN IF Vote_outcome(current_vote(g))
       THEN Return([next_leader(g) EXCEPT !.state = MISSION_VOTE_IN_PROGRESS])
       ELSE LET g1 == next_leader(g)
            IN IF can_vote(current_round(g1))
               THEN Return([g1 EXCEPT !.state = PROPOSAL_PENDING])
               ELSE Return(next_round_or_gameover(g1))
  ELSE IF g.state = MISSION_VOTE_RESULTS
  THEN Return(next_round_or_gameover(next_leader(g)))
  ELSE Raise(g, "Current game state is changed automatically.")

\* next_state that starts the game without the check of the upper limit.
next_state_no_max(g, rnd) ==
  IF g.state = NOT_STARTED
  THEN IF ~(MIN_PLAYERS <= Len(g.players))
       THEN Raise(g, "The number of players must be between 5 and 10!")
       ELSE Return(next_round_or_gameover(assign_spies(g, rnd)))
  ELSE IF g.state = PARTY_VOTE_RESULTS
  THEN IF Vote_outcome(current_vote(g))
       THEN Return([g EXCEPT !.state = MISSION_VOTE_IN_PROGRESS])
       ELSE LET g1 == next_leader(g)
            IN IF can_vote(current_round(g1))
               THEN Return([g1 EXCEPT !.state = PROPOSAL_PENDING])
               ELSE Return(next_round_or_gameover(g1))
  ELSE IF g.state = MISSION_VOTE_RESULTS
  THEN Return(next_round_or_gameover(next_leader(g)))
  ELSE Raise(g, "Current game state is changed automatically.")

\* next_state whose last branch is taken for every other state: the elif
\* on MISSION_VOTE_RESULTS and the raise are missing.
next_state_else(g, rnd) ==
  IF g.state = NOT_STARTED
  THEN IF ~(MIN_PLAYERS <= Len(g.players) /\ Len(g.players) <= MAX_PLAYERS)
       THEN Raise(g, "The number of players must be between 5 and 10!")
       ELSE Return(next_round_or_gameover(assign_spies(g, rnd)))
  ELSE IF g.state = PARTY_VOTE_RESULTS
  THEN IF Vote_outcome(current_vote(g))
       THEN Return([g EXCEPT !.state = MISSION_VOTE_IN_PROGRESS])
       ELSE LET g1 == next_leader(g)
            IN IF can_vote(current_round(g1))
               THEN Return([g1 EXCEPT !.state = PROPOSAL_PENDING])
               ELSE Return(next_round_or_gameover(g1))
  ELSE Return(next_round_or_gameover(next_leader(g)))

next_state(g, rnd) ==
  IF g.state = NOT_STARTED
  THEN IF ~(MIN_PLAYERS <= Len(g.players) /\ Len(g.players) <= MAX_PLAYERS)
       THEN Raise(g, "The number of players must be between 5 and 10!")
       ELSE Return(next_round_or_gameover(assign_spies(g, rnd)))
  ELSE IF g.state = PARTY_VOTE_RESULTS
  THEN IF Vote_outcome(current_vote(g))
       THEN Return([g EXCEPT !.state = MISSION_VOTE_IN_PROGRESS])
       ELSE LET g1 == next_leader(g)
            IN IF can_vote(current_round(g1))
               THEN Return([g1 EXCEPT !.state = PROPOSAL_PENDING])
               ELSE Return(next_round_or_gameover(g1))
  ELSE IF g.state = MISSION_VOTE_RESULTS
  THEN Return(next_round_or_gameover(next_leader(g)))
  ELSE Raise(g, "Current game state is changed automatically.")

\* register_player that closes the table at MAX_PLAYERS.
register_player_capped(g, user) ==
  IF g.state # NOT_STARTED THEN Raise(g, "Can't register for an already started game!")
  ELSE IF In(user, g.players) THEN Raise(g, "Can't register twice!")
  ELSE IF Len(g.players) >= MAX_PLAYERS THEN Raise(g, "The table is full!")
  ELSE Return([g EXCEPT !.players = Append(@, user)])

\* register_player without the check of the state.
register_player_any_state(g, user) ==
  IF In(user, g.players) THEN Raise(g, "Can't register twice!")
  ELSE Return([g EXCEPT !.players = Append(@, user)])

register_player(g, user) ==
  IF g.state # NOT_STARTED THEN Raise(g, "Can't register for an already started game!")
  ELSE IF In(user, g.players) THEN Raise(g, "Can't register twice!")
  ELSE Return([g EXCEPT !.players = Append(@, user)])

\* propose_party without the check of the party size.
propose_party_any_size(g, user, users) ==
  IF ~In(user, g.players) THEN Raise(g, "You are not registered!")
  ELSE IF g.state # PROPOSAL_PENDING THEN Raise(g, "Party proposal not pending!")
  ELSE IF user # leader(g) THEN Raise(g, "Only leader can propose a party!")
  ELSE IF \E i \in 1..Len(users) : ~In(users[i], g.players) THEN Raise(g, "Can't propose non-registered user!")
  ELSE Return([g EXCEPT !.rounds[Len(g.rounds)].votes = Append(@, Vote(users)),
                        !.state = PARTY_VOTE_IN_PROGRESS])

propose_party(g, user, users) ==
  IF ~In(user, g.players) THEN Raise(g, "You are not registered!")
  ELSE IF g.state # PROPOSAL_PENDING THEN Raise(g, "Party proposal not pending!")
  ELSE IF user # leader(g) THEN Raise(g, "Only leader can propose a party!")
  ELSE IF Len(users) # current_party_size(g) THEN Raise(g, "Party must have N members!")
  ELSE IF \E i \in 1..Len(users) : ~In(users[i], g.players) THEN Raise(g, "Can't propose non-registered user!")
  ELSE Return([g EXCEPT !.rounds[Len(g.rounds)].votes = Append(@, Vote(users)),
                        !.state = PARTY_VOTE_IN_PROGRESS])

\* vote_party that takes a changed ballot, also once the results are in.
vote_party_revote(g, user, ballot) ==
  IF ~In(user, g.players) THEN Raise(g, "You are not registered!")
  ELSE IF g.state \notin {PARTY_VOTE_IN_PROGRESS, PARTY_VOTE_RESULTS}
  THEN Raise(g, "Party vote not in progress!")
  ELSE LET r == Len(g.rounds)
           v == Len(g.rounds[r].votes)
           g1 == [g EXCEPT !.rounds[r].votes[v].ballots = SetItem(@, user, ballot)]
       IN IF Cardinality(DOMAIN current_vote(g1).ballots) >= Len(g1.players)
          THEN Return([g1 EXCEPT !.state = PARTY_VOTE_RESULTS])
          ELSE Return(g1)

\* vote_party that closes the vote one ballot late (> for >=).
vote_party_gt(g, user, ballot) ==
  IF ~In(user, g.players) THEN Raise(g, "You are not registered!")
  ELSE IF g.state # PARTY_VOTE_IN_PROGRESS THEN Raise(g, "Party vote not in progress!")
  ELSE IF user \in DOMAIN current_vote(g).ballots THEN Raise(g, "Can't vote twice!")
  ELSE LET r == Len(g.rounds)
           v == Len(g.rounds[r].votes)
           g1 == [g EXCEPT !.rounds[r].votes[v].ballots = SetItem(@, user, ballot)]
       IN IF Cardinality(DOMAIN current_vote(g1).ballots) > Len(g1.players)
          THEN Return([g1 EXCEPT !.state = PARTY_VOTE_RESULTS])
          ELSE Return(g1)

vote_party(g, user, ballot) ==
  IF ~In(user, g.players) THEN Raise(g, "You are not registered!")
  ELSE IF g.state # PARTY_VOTE_IN_PROGRESS THEN Raise(g, "Party vote not in progress!")
  ELSE IF user \in DOMAIN current_vote(g).ballots THEN Raise(g, "Can't vote twice!")
  ELSE LET r == Len(g.rounds)
           v == Len(g.rounds[r].votes)
           g1 == [g EXCEPT !.rounds[r].votes[v].ballots = SetItem(@, user, ballot)]
       IN IF Cardinality(DOMAIN current_vote(g1).ballots) >= Len(g1.players)
          THEN Return([g1 EXCEPT !.state = PARTY_VOTE_RESULTS])
          ELSE Return(g1)

\* vote_mission without the check that the user is in the party.
vote_mission_anyone(g, user, ballot) ==
  IF ~In(user, g.players) THEN Raise(g, "You are not registered!")
  ELSE IF g.state # MISSION_VOTE_IN_PROGRESS THEN Raise(g, "Mission vote not in progress!")
  ELSE IF user \in DOMAIN current_round(g).ballots THEN Raise(g, "Can't vote twice!")
  ELSE IF ~ballot /\ ~In(user, g.spies) THEN Raise(g, "Only spies can vote black!")
  ELSE LET g1 == [g EXCEPT !.rounds[Len(g.rounds)].ballots = SetItem(@, user, ballot)]
       IN IF Cardinality(DOMAIN current_round(g1).ballots) >= current_party_size(g1)
          THEN Return([g1 EXCEPT !.state = MISSION_VOTE_RESULTS])
          ELSE Return(g1)

\* vote_mission without the check that only spies vote black.
vote_mission_any_colour(g, user, ballot) ==
  IF ~In(user, g.players) THEN Raise(g, "You are not registered!")
  ELSE IF g.state # MISSION_VOTE_IN_PROGRESS THEN Raise(g, "Mission vote not in progress!")
  ELSE IF user \in DOMAIN current_round(g).ballots THEN Raise(g, "Can't vote twice!")
  ELSE IF ~In(user, current_party(g)) THEN Raise(g, "Only party members can vote!")
  ELSE LET g1 == [g EXCEPT !.rounds[Len(g.rounds)].ballots = SetItem(@, user, ballot)]
       IN IF Cardinality(DOMAIN current_round(g1).ballots) >= current_party_size(g1)
          THEN Return([g1 EXCEPT !.state = MISSION_VOTE_RESULTS])
          ELSE Return(g1)

\* vote_mission that records the ballot before it checks the colour.
vote_mission_record_first(g, user, ballot) ==
  IF ~In(user, g.players) THEN Raise(g, "You are not registered!")
  ELSE IF g.state # MISSION_VOTE_IN_PROGRESS THEN Raise(g, "Mission vote not in progress!")
  ELSE IF user \in DOMAIN current_round(g).ballots THEN Raise(g, "Can't vote twice!")
  ELSE IF ~In(user, current_party(g)) THEN Raise(g, "Only party members can vote!")
  ELSE LET g1 == [g EXCEPT !.rounds[Len(g.rounds)].ballots = SetItem(@, user, ballot)]
       IN IF ~ballot /\ ~In(user, g.spies) THEN Raise(g1, "Only spies can vote black!")
          ELSE IF Cardinality(DOMAIN current_round(g1).ballots) >= current_party_size(g1)
          THEN Return([g1 EXCEPT !.state = MISSION_VOTE_RESULTS])
          ELSE Return(g1)

vote_mission(g, user, ballot) ==
  IF ~In(user, g.players) THEN Raise(g, "You are not registered!")
  ELSE IF g.state # MISSION_VOTE_IN_PROGRESS THEN Raise(g, "Mission vote not in progress!")
  ELSE IF user \in DOMAIN current_round(g).ballots THEN Raise(g, "Can't vote twice!")
  ELSE IF ~In(user, current_party(g)) THEN Raise(g, "Only party members can vote!")
  ELSE IF ~ballot /\ ~In(user, g.spies) THEN Raise(g, "Only spies can vote black!")
  ELSE LET g1 == [g EXCEPT !.rounds[Len(g.rounds)].ballots = SetItem(@, user, ballot)]
       IN IF Cardinality(DOMAIN current_round(g1).ballots) >= current_party_size(g1)
          THEN Return([g1 EXCEPT !.state = MISSION_VOTE_RESULTS])
          ELSE Return(g1)

\* ------------------------------------------------------------------- state
VARIABLES state, players, spies, rounds, leader_idx, last

vars == <<state, players, spies, rounds, leader_idx, last>>

\* The GameInstance object as one record.
game ==
  [state |-> state, players |-> players, spies |-> spies, rounds |-> rounds,
   leader_idx |-> leader_idx]

\* The call made by the last step: the method, the calling user, the
\* argument, and the message of the GameError it raised (None: it returned).
Call(op, user, arg, err) == [op |-> op, user |-> user, arg |-> arg, err |-> err]

Init ==
  /\ state = GameInstance.state
  /\ players = GameInstance.players
  /\ spies = GameInstance.spies
  /\ rounds = GameInstance.rounds
  /\ leader_idx = GameInstance.leader_idx
  /\ last = Call("__init__", None, None, None)

\* One call of a method with result res.
Do(op, user, arg, res) ==
  /\ state' = res.g.state
  /\ players' = res.g.players
  /\ spies' = res.g.spies
  /\ rounds' = res.g.rounds
  /\ leader_idx' = res.g.leader_idx
  /\ last' = Call(op, user, arg, res.err)

\* ------------------------------------------------------------- environment
\* The calls the model makes. Every call the engine accepts is made, within
\* the scenarios below. Of the calls it rejects with the same message in the
\* same state, the one with the least caller and argument is made (Probe).
\* A behaviour is a sequence of accepted calls, ended or not by one rejected
\* call (Ready): the calls that follow a rejected call are those that follow
\* the accepted call before it, the rejected call having changed nothing
\* (which is checked on every rejected call).
Ready == last.err = None

Probe(err, least) == err # None => least

\* Number of Vote objects created so far in the game.
RECURSIVE TotalVotes(_)
TotalVotes(rs) ==
  IF rs = << >> THEN 0 ELSE Len(Head(rs).votes) + TotalVotes(Tail(rs))

\* The draws of random.sample for k positions out of n. The order of a
\* sample is not kept apart: spies is only read by membership tests.
Draws(n, k) ==
  {rnd \in [1..k -> 1..n] : \A i, j \in 1..k : i < j => rnd[i] < rnd[j]}

\* n consecutive seats from the seat with index idx on (0-based, cyclic).
Seats(g, idx, n) ==
  [i \in 1..n |-> g.players[((idx + i - 1) % Len(g.players)) + 1]]

\* The parties proposed to propose_party, in the order of their rank: the
\* seats from the leader's on, the same with the leader named twice, one
\* member short, and with the Stranger.
PartyInputs(g) ==
  IF g.state # PROPOSAL_PENDING THEN << <<1, 2>> >>
  ELSE LET size == current_party_size(g)
           idx == g.leader_idx % Len(g.players)
           head == Seats(g, idx, size - 1)
       IN <<Seats(g, idx, size), Append(head, leader(g)), head,
            Append(head, Stranger)>>

HasRepeat(list) == \E i, j \in 1..Len(list) : i # j /\ list[i] = list[j]

\* A party that names a player twice is proposed as the first proposal of
\* the game only.
PartyScenario(g, users) == HasRepeat(users) => TotalVotes(g.rounds) = 0

\* Party votes are cast in seating order and as a bloc (every ballot of a
\* Vote repeats its first one), and a round's proposals are either approved
\* at once or fought to the vote limit: a proposal is approved as the first
\* or the VOTE_LIMIT-th of its round, and rejected after a rejected one.
PartyVoteScenario(g, user, ballot) ==
  LET v == current_vote(g)
      r == current_round(g)
  IN /\ \A i \in 1..Len(g.players) :
          g.players[i] \notin DOMAIN v.ballots => user <= g.players[i]
     /\ \A u \in DOMAIN v.ballots : v.ballots[u] = ballot
     /\ ballot => Len(r.votes) \in {1, VOTE_LIMIT}
     /\ ~ballot => Len(r.votes) = 1 \/ ~Vote_outcome(r.votes[1])

Rank(user, ballot) == 2 * user + (IF ballot THEN 0 ELSE 1)

\* ----------------------------------------------------------------- actions
RegisterPlayer ==
  /\ Ready
  /\ LET inputs == 1..(IF Len(players) < NRegistrants THEN Len(players) + 1
                       ELSE NRegistrants)
         res == [user \in inputs |-> register_player(game, user)]
     IN \E user \in inputs :
          /\ Probe(res[user].err,
                   \A u \in inputs : u < user => res[u].err # res[user].err)
          /\ Do("register_player", user, None, res[user])

ProposeParty ==
  /\ Ready
  /\ LET inputs == Users \X (1..Len(PartyInputs(game)))
         res == [in \in inputs |->
                   propose_party(game, in[1], PartyInputs(game)[in[2]])]
     IN \E in \in inputs :
          LET user == in[1]
              users == PartyInputs(game)[in[2]]
          IN /\ res[in].err = None =>
                  TotalVotes(rounds) < MaxVotes /\ PartyScenario(game, users)
             /\ Probe(res[in].err,
                      \A other \in inputs :
                         (other[1] < user \/ (other[1] = user /\ other[2] < in[2]))
                         => res[other].err # res[in].err)
             /\ Do("propose_party", user, users, res[in])

VoteParty ==
  /\ Ready
  /\ LET inputs == Users \X BOOLEAN
         res == [in \in inputs |-> vote_party(game, in[1], in[2])]
     IN \E in \in inputs :
          /\ res[in].err = None => PartyVoteScenario(game, in[1], in[2])
          /\ Probe(res[in].err,
                   \A other \in inputs :
                      Rank(other[1], other[2]) < Rank(in[1], in[2])
                      => res[other].err # res[in].err)
          /\ Do("vote_party", in[1], in[2], res[in])

VoteMission ==
  /\ Ready
  /\ LET inputs == Users \X BOOLEAN
         res == [in \in inputs |-> vote_mission(game, in[1], in[2])]
     IN \E in \in inputs :
          /\ Probe(res[in].err,
                   \A other \in inputs :
                      Rank(other[1], other[2]) < Rank(in[1], in[2])
                      => res[other].err # res[in].err)
          /\ Do("vote_mission", in[1], in[2], res[in])

NextState ==
  /\ Ready
  /\ \E rnd \in (IF state = NOT_STARTED /\ Len(players) >= MIN_PLAYERS
                 THEN Draws(Len(players), (Len(players) + 2) \div 3)
                 ELSE {<< >>}) :
       Do("next_state", None, None, next_state(game, rnd))

Next == RegisterPlayer \/ ProposeParty \/ VoteParty \/ VoteMission \/ NextState

Spec == Init /\ [][Next]_vars

\* ------------------------------------------------------ tables of any size
\* SpecTable: games at a table of any size. Up to MaxRegistrants users
\* register, next_state draws any sample of spies, and the game is played
\* straight: the leader proposes the seats from the leader's on, the players
\* vote on it in seating order and approve it, but that the proposals of the
\* fourth round may be rejected as in PartyVoteScenario, the party members
\* vote on the mission in the
\* order of the party, the black ballots of a mission before its red ones.
\* Of the rejected calls, a registration
\* is made before the first proposal and next_state at the start.
TableRegister ==
  /\ Ready
  /\ TotalVotes(rounds) = 0
  /\ LET inputs == 1..(IF Len(players) < MaxRegistrants THEN Len(players) + 1
                       ELSE MaxRegistrants)
         res == [user \in inputs |-> register_player(game, user)]
     IN \E user \in inputs :
          /\ Probe(res[user].err,
                   \A u \in inputs : u < user => res[u].err # res[user].err)
          /\ Do("register_player", user, None, res[user])

TableNextState ==
  /\ Ready
  /\ state \in {NOT_STARTED, PARTY_VOTE_RESULTS, MISSION_VOTE_RESULTS}
  /\ \E rnd \in (IF /\ state = NOT_STARTED
                    /\ Len(players) >= MIN_PLAYERS /\ Len(players) <= MAX_PLAYERS
                 THEN Draws(Len(players), (Len(players) + 2) \div 3)
                 ELSE {<< >>}) :
       Do("next_state", None, None, next_state(game, rnd))

TableProposeParty ==
  /\ Ready
  /\ state = PROPOSAL_PENDING
  /\ LET users == Seats(game, leader_idx % Len(players), current_party_size(game))
     IN Do("propose_party", leader(game), users,
           propose_party(game, leader(game), users))

TableVoteParty ==
  /\ Ready
  /\ state = PARTY_VOTE_IN_PROGRESS
  /\ \E i \in 1..Len(players) :
       /\ players[i] \notin DOMAIN current_vote(game).ballots
       /\ \A j \in 1..(i - 1) : players[j] \in DOMAIN current_vote(game).ballots
       /\ \E ballot \in BOOLEAN :
            /\ PartyVoteScenario(game, players[i], ballot)
            /\ ~ballot => Len(rounds) = 4
            /\ Do("vote_party", players[i], ballot,
                  vote_party(game, players[i], ballot))

TableVoteMission ==
  /\ Ready
  /\ state = MISSION_VOTE_IN_PROGRESS
  /\ \E i \in 1..Len(current_party(game)) : \E ballot \in BOOLEAN :
       LET party == current_party(game)
           res == vote_mission(game, party[i], ballot)
       IN /\ party[i] \notin DOMAIN current_round(game).ballots
          /\ \A j \in 1..(i - 1) : party[j] \in DOMAIN current_round(game).ballots
          /\ ~ballot => \A u \in DOMAIN current_round(game).ballots :
                            ~current_round(game).ballots[u]
          /\ res.err = None
          /\ Do("vote_mission", party[i], ballot, res)

TableNext ==
  \/ TableRegister
  \/ TableNextState
  \/ TableProposeParty
  \/ TableVoteParty
  \/ TableVoteMission

SpecTable == Init /\ [][TableNext]_vars

\* ---------------------------------------------------------- a single Vote
\* SpecVote: Vote.outcome on every set of ballots. The game starts at the
\* end of the first party vote of a table of MIN_PLAYERS..MAX_PLAYERS
\* players, the Vote on the leader's proposal holding any ballot of every
\* player, and next_state reads its outcome.
InitVote ==
  \E n \in MIN_PLAYERS..MAX_PLAYERS : \E ballots \in [1..n -> BOOLEAN] :
    LET started ==
          next_state([GameInstance EXCEPT !.players = [i \in 1..n |-> i]],
                     [i \in 1..((n + 2) \div 3) |-> i]).g
        users == Seats(started, started.leader_idx % n, current_party_size(started))
        proposed == propose_party(started, leader(started), users).g
        vote == [last_vote(current_round(proposed)) EXCEPT !.ballots = ballots]
    IN /\ state = PARTY_VOTE_RESULTS
       /\ players = proposed.players
       /\ spies = proposed.spies
       /\ rounds = [proposed.rounds EXCEPT ![1].votes[1] = vote]
       /\ leader_idx = proposed.leader_idx
       /\ last = Call("vote_party", n, ballots[n], None)

VoteNextState ==
  /\ Ready
  /\ state = PARTY_VOTE_RESULTS
  /\ Do("next_state", None, None, next_state(game, << >>))

NextVote == VoteNextState

SpecVote == InitVote /\ [][NextVote]_vars

\* ------------------------------------------------------------------ claims
PlayerSet == {players[i] : i \in 1..Len(players)}

\* The Vote has a ballot of every registered player.
Complete(v) == DOMAIN v.ballots = PlayerSet

\* Round i has ended: a later round exists, or the game is over.
Ended(i) == i < Len(rounds) \/ state = GAME_OVER

\* The mission ballot of round i has been completed: its last proposal was
\* approved and the phase is MISSION_VOTE_RESULTS or later for that round.
MissionCompleted(i) ==
  /\ i \in 1..Len(rounds)
  /\ rounds[i].votes # << >>
  /\ Complete(last_vote(rounds[i])) /\ Vote_outcome(last_vote(rounds[i]))
  /\ Ended(i) \/ state = MISSION_VOTE_RESULTS

\* Number of black ballots of a round.
Blacks(r) == count(r.ballots, FALSE)

\* C1: for every round whose mission ballot has been completed,
\* Round.outcome is a resistance win exactly when the number of black
\* mission ballots is less than the round's winning_count, whichever of the
\* 1..5 proposals of the round was the approved one.
C1_OutcomeIsMissionTally ==
  \A i \in 1..Len(rounds) :
    MissionCompleted(i) =>
      (Round_outcome(rounds[i]) <=> Blacks(rounds[i]) < rounds[i].winning_count)

\* C2: in every state whose phase is not GAME_OVER, GameInstance.outcome
\* returns None.
C2_UndecidedUntilGameOver == state # GAME_OVER => outcome(game) = None

\* C3: in every state with phase MISSION_VOTE_IN_PROGRESS at least one
\* member of the current party has not yet cast a mission ballot.
C3_MissionVoteOpenHasVoter ==
  state = MISSION_VOTE_IN_PROGRESS =>
    \E i \in 1..Len(current_party(game)) :
      current_party(game)[i] \notin DOMAIN current_round(game).ballots

\* The results of the calls of every method by every user in the current
\* state, the party argument of propose_party ranging over parties.
CallResults(parties) ==
  {register_player(game, u) : u \in Users}
  \cup {propose_party(game, in[1], in[2]) : in \in Users \X parties}
  \cup {vote_party(game, in[1], in[2]) : in \in Users \X BOOLEAN}
  \cup {vote_mission(game, in[1], in[2]) : in \in Users \X BOOLEAN}
  \cup {next_state(game, rnd) :
          rnd \in (IF state = NOT_STARTED /\ Len(players) >= MIN_PLAYERS
                   THEN Draws(Len(players), (Len(players) + 2) \div 3)
                   ELSE {<< >>})}

\* All lists of at most n users.
Lists(n) == UNION {[1..k -> Users] : k \in 0..n}

\* C4: every phase change is one of the edges NOT_STARTED -> PROPOSAL_PENDING
\* (next_state), PROPOSAL_PENDING -> PARTY_VOTE_IN_PROGRESS (propose_party),
\* PARTY_VOTE_IN_PROGRESS -> PARTY_VOTE_RESULTS (vote_party reaching quorum),
\* PARTY_VOTE_RESULTS -> MISSION_VOTE_IN_PROGRESS or PROPOSAL_PENDING or, on
\* a forfeiture, GAME_OVER (next_state), MISSION_VOTE_IN_PROGRESS ->
\* MISSION_VOTE_RESULTS (vote_mission reaching quorum), MISSION_VOTE_RESULTS
\* -> PROPOSAL_PENDING or GAME_OVER (next_state); and next_state called in
\* PROPOSAL_PENDING, PARTY_VOTE_IN_PROGRESS, MISSION_VOTE_IN_PROGRESS or
\* GAME_OVER fails and changes nothing.
C4_PhaseEdges ==
  [][/\ state' # state =>
          \/ /\ state = NOT_STARTED /\ state' = PROPOSAL_PENDING
             /\ last'.op = "next_state"
          \/ /\ state = PROPOSAL_PENDING /\ state' = PARTY_VOTE_IN_PROGRESS
             /\ last'.op = "propose_party"
          \/ /\ state = PARTY_VOTE_IN_PROGRESS /\ state' = PARTY_VOTE_RESULTS
             /\ last'.op = "vote_party"
             /\ Complete(current_vote(game))'
          \/ /\ state = PARTY_VOTE_RESULTS /\ last'.op = "next_state"
             /\ \/ state' = MISSION_VOTE_IN_PROGRESS
                \/ state' = PROPOSAL_PENDING
                \/ /\ state' = GAME_OVER
                   /\ ~Vote_outcome(current_vote(game))
                   /\ Len(current_round(game).votes) = VOTE_LIMIT
          \/ /\ state = MISSION_VOTE_IN_PROGRESS /\ state' = MISSION_VOTE_RESULTS
             /\ last'.op = "vote_mission"
             /\ \A i \in 1..Len(current_party(game)) :
                   current_party(game)[i] \in DOMAIN rounds'[Len(rounds')].ballots
          \/ /\ state = MISSION_VOTE_RESULTS /\ last'.op = "next_state"
             /\ state' \in {PROPOSAL_PENDING, GAME_OVER}
     /\ /\ last'.op = "next_state"
        /\ state \in {PROPOSAL_PENDING, PARTY_VOTE_IN_PROGRESS,
                      MISSION_VOTE_IN_PROGRESS, GAME_OVER}
        => last'.err # None /\ game' = game
    ]_vars

\* A forfeiture has ended the game.
C4_Witness ==
  /\ state = GAME_OVER /\ last.op = "next_state" /\ last.err = None
  /\ Len(rounds[Len(rounds)].votes) = VOTE_LIMIT
  /\ ~Vote_outcome(last_vote(rounds[Len(rounds)]))

\* C5: once the phase is GAME_OVER, every call of register_player,
\* propose_party, vote_party, vote_mission and next_state, by any user with
\* any arguments, fails, and phase, players, spies, rounds and the leader
\* cursor stay unchanged.
C5_GameOverIsFinal ==
  /\ [](state = GAME_OVER /\ Ready =>
          \A res \in CallResults(Lists(3)) : res.err # None /\ res.g = game)
  /\ [][state = GAME_OVER => last'.err # None /\ game' = game]_vars

\* A mission ballot was tried after the game was over, and was rejected.
C5_Witness ==
  state = GAME_OVER /\ last.op = "vote_mission" /\ last.err # None

\* C6: every call of register_player, propose_party, vote_party,
\* vote_mission or next_state that fails with a GameError leaves phase,
\* players, spies, rounds and the leader cursor as they were before it.
C6_FailedCallChangesNothing ==
  /\ [](Ready =>
          \A res \in CallResults(Lists(2)) : res.err # None => res.g = game)
  /\ [][last'.err # None => game' = game]_vars

\* A party member who is no spy tried to vote black.
C6_Witness ==
  /\ last.op = "vote_mission" /\ last.err = "Only spies can vote black!"
  /\ state = MISSION_VOTE_IN_PROGRESS

\* The last Vote of round i holds every ballot and is a rejection.
Rejected(i) ==
  /\ rounds[i].votes # << >>
  /\ Complete(last_vote(rounds[i])) /\ ~Vote_outcome(last_vote(rounds[i]))

\* C7: when the fifth proposal of a round is rejected, next_state from
\* PARTY_VOTE_RESULTS neither returns to PROPOSAL_PENDING for the same round
\* nor enters MISSION_VOTE_IN_PROGRESS: the round counts as a spy win with
\* no mission ballot cast, and the next round is opened or the game is over;
\* with fewer than five proposals a rejection returns to PROPOSAL_PENDING in
\* the same round.
C7_FifthRejectionForfeits ==
  /\ [](\A i \in 1..Len(rounds) :
          Len(rounds[i].votes) = VOTE_LIMIT /\ Rejected(i) =>
            /\ rounds[i].ballots = EmptyDict
            /\ ~Round_outcome(rounds[i])
            /\ i = Len(rounds) => state \in {PARTY_VOTE_RESULTS, GAME_OVER})
  /\ [][/\ state = PARTY_VOTE_RESULTS /\ last'.op = "next_state"
        /\ Rejected(Len(rounds))
        => IF Len(rounds[Len(rounds)].votes) = VOTE_LIMIT
           THEN /\ rounds'[Len(rounds)] = rounds[Len(rounds)]
                /\ \/ state' = GAME_OVER /\ rounds' = rounds
                   \/ /\ state' = PROPOSAL_PENDING
                      /\ Len(rounds') = Len(rounds) + 1
                      /\ rounds'[Len(rounds')].votes = << >>
           ELSE state' = PROPOSAL_PENDING /\ rounds' = rounds
       ]_vars

\* A round was forfeited and the next round has been opened.
C7_Witness ==
  /\ state = PROPOSAL_PENDING /\ last.op = "next_state" /\ Len(rounds) >= 2
  /\ rounds[Len(rounds)].votes = << >>
  /\ Len(rounds[Len(rounds) - 1].votes) = VOTE_LIMIT
  /\ Rejected(Len(rounds) - 1)

\* Round i was forfeited: VOTE_LIMIT proposals, all rejected.
Forfeited(i) == Len(rounds[i].votes) = VOTE_LIMIT /\ Rejected(i)

\* The completed rounds each side has won, by the rule of the game: a
\* completed mission with fewer black ballots than winning_count is won by
\* the resistance, one with at least winning_count and a forfeited round by
\* the spies.
ResistanceRounds ==
  {i \in 1..Len(rounds) :
     MissionCompleted(i) /\ Blacks(rounds[i]) < rounds[i].winning_count}

SpyRounds ==
  {i \in 1..Len(rounds) :
     \/ MissionCompleted(i) /\ Blacks(rounds[i]) >= rounds[i].winning_count
     \/ Ended(i) /\ Forfeited(i)}

\* C8: the phase is GAME_OVER only if one side has won exactly 3 completed
\* rounds and the other at most 2, a round was opened only while neither
\* side had 3 wins among the rounds before it, and in GAME_OVER GameInstance.outcome is True exactly
\* when the resistance won 3 rounds and False exactly when the spies did.
C8_GameOverAtThreeWins ==
  LET resistance == Cardinality(ResistanceRounds)
      spy == Cardinality(SpyRounds)
  IN /\ state = GAME_OVER =>
          /\ \/ resistance = WIN_LIMIT /\ spy < WIN_LIMIT
             \/ spy = WIN_LIMIT /\ resistance < WIN_LIMIT
          /\ outcome(game) = True <=> resistance = WIN_LIMIT
          /\ outcome(game) = False <=> spy = WIN_LIMIT
     /\ Len(rounds) > 0 =>
          /\ Cardinality(ResistanceRounds \ {Len(rounds)}) < WIN_LIMIT
          /\ Cardinality(SpyRounds \ {Len(rounds)}) < WIN_LIMIT

\* C9: every black mission ballot recorded in any round belongs to a spy;
\* vote_mission(user, False) by a party member who is not a spy fails and
\* records nothing, and vote_mission(user, True) is accepted from any party
\* member who has not yet voted.
C9_OnlySpiesVoteBlack ==
  /\ \A i \in 1..Len(rounds) : \A u \in DOMAIN rounds[i].ballots :
        ~rounds[i].ballots[u] => In(u, spies)
  /\ last.op = "vote_mission" /\ last.err = None /\ ~last.arg
       => In(last.user, spies)
  /\ state = MISSION_VOTE_IN_PROGRESS /\ Ready =>
       \A u \in Users :
         In(u, current_party(game)) /\ u \notin DOMAIN current_round(game).ballots
         => /\ ~In(u, spies) =>
                 /\ vote_mission(game, u, FALSE).err # None
                 /\ vote_mission(game, u, FALSE).g = game
            /\ vote_mission(game, u, TRUE).err = None
            /\ vote_mission(game, u, TRUE).g.rounds[Len(rounds)].ballots
                 = SetItem(current_round(game).ballots, u, TRUE)

\* A spy's black ballot is recorded, and the black ballot of a party member
\* who is no spy has been rejected.
C9_Witness ==
  /\ state = MISSION_VOTE_IN_PROGRESS
  /\ \E u \in DOMAIN rounds[Len(rounds)].ballots : ~rounds[Len(rounds)].ballots[u]
  /\ last.op = "vote_mission" /\ last.arg = FALSE /\ last.err # None
  /\ In(last.user, current_party(game)) /\ ~In(last.user, spies)

\* C10: the phase is PARTY_VOTE_RESULTS exactly when the current Vote holds
\* one ballot for every registered player and PARTY_VOTE_IN_PROGRESS exactly
\* when it holds fewer; vote_party records at most one ballot per registered
\* player (a second vote by the same user and a vote by a non-player fail),
\* and the ballot that completes the set moves the phase to
\* PARTY_VOTE_RESULTS.
C10_PartyVoteQuorum ==
  /\ \A i \in 1..Len(rounds) : \A j \in 1..Len(rounds[i].votes) :
        DOMAIN rounds[i].votes[j].ballots \subseteq PlayerSet
  /\ state = PARTY_VOTE_RESULTS => Complete(current_vote(game))
  /\ state = PARTY_VOTE_IN_PROGRESS => ~Complete(current_vote(game))
  /\ state = PARTY_VOTE_IN_PROGRESS /\ Ready =>
       \A u \in Users : \A b \in BOOLEAN :
         LET res == vote_party(game, u, b)
             voted == DOMAIN current_vote(game).ballots
         IN IF u \in voted \/ ~In(u, players)
            THEN res.err # None /\ res.g = game
            ELSE /\ res.err = None
                 /\ current_vote(res.g).ballots
                      = SetItem(current_vote(game).ballots, u, b)
                 /\ res.g.state = PARTY_VOTE_RESULTS <=> voted \cup {u} = PlayerSet
                 /\ res.g.state \in {PARTY_VOTE_RESULTS, PARTY_VOTE_IN_PROGRESS}

\* The ballot of the last player has closed the party vote.
C10_Witness ==
  /\ state = PARTY_VOTE_RESULTS /\ last.op = "vote_party" /\ last.err = None
  /\ Complete(current_vote(game))

\* C11: propose_party(user, party) succeeds if and only if the phase is
\* PROPOSAL_PENDING, user is the current leader, len(party) equals
\* PARTY_SIZES[player count][current round index] and every party member is
\* a registered player; on success exactly one new Vote with that party and
\* no ballots is appended to the current round and the phase becomes
\* PARTY_VOTE_IN_PROGRESS, and nothing else changes.
C11_ProposePartyContract ==
  /\ [](Ready =>
          \A user \in Users :
          \A party \in Lists(IF state = PROPOSAL_PENDING THEN 3 ELSE 1) :
            LET res == propose_party(game, user, party)
                allowed ==
                  /\ state = PROPOSAL_PENDING
                  /\ user = Item(players, leader_idx)
                  /\ Len(party) = PARTY_SIZES[Len(players)][Len(rounds)]
                  /\ \A i \in 1..Len(party) : party[i] \in PlayerSet
            IN /\ res.err = None <=> allowed
               /\ allowed =>
                    res.g = [game EXCEPT
                               !.rounds[Len(rounds)].votes =
                                  Append(@, [party |-> party, ballots |-> EmptyDict]),
                               !.state = PARTY_VOTE_IN_PROGRESS])
  /\ [][last'.op = "propose_party" /\ last'.err = None =>
          /\ state = PROPOSAL_PENDING /\ state' = PARTY_VOTE_IN_PROGRESS
          /\ last'.user = Item(players, leader_idx)
          /\ Len(last'.arg) = PARTY_SIZES[Len(players)][Len(rounds)]
          /\ \A i \in 1..Len(last'.arg) : last'.arg[i] \in PlayerSet
          /\ rounds' = [rounds EXCEPT ![Len(rounds)].votes =
                          Append(@, [party |-> last'.arg, ballots |-> EmptyDict])]
          /\ players' = players /\ spies' = spies /\ leader_idx' = leader_idx
       ]_vars

\* The leader's proposal of the third round has been accepted.
C11_Witness ==
  /\ state = PARTY_VOTE_IN_PROGRESS /\ last.op = "propose_party"
  /\ last.err = None /\ Len(rounds) = 3
  /\ last_vote(rounds[3]) = [party |-> last.arg, ballots |-> EmptyDict]

\* The number of spies at a table of 5..10 players: 2, 2, 3, 3, 3, 4.
SpiesAtTable(n) == <<2, 2, 3, 3, 3, 4>>[n - 4]

\* C12: spies is empty in every state with phase NOT_STARTED; in every later
\* state spies is a duplicate-free subset of players with exactly ceil(n/3)
\* members for n registered players (5 -> 2, 6 -> 2, 7 -> 3, 8 -> 3, 9 -> 3,
\* 10 -> 4), and it is assigned exactly once: no operation after the start
\* changes it.
C12_SpiesAssignedOnce ==
  /\ [](state = NOT_STARTED => spies = << >>)
  /\ [](state # NOT_STARTED =>
          /\ ~HasRepeat(spies)
          /\ \A i \in 1..Len(spies) : spies[i] \in PlayerSet
          /\ 3 * Len(spies) >= Len(players) /\ 3 * (Len(spies) - 1) < Len(players)
          /\ Len(spies) = SpiesAtTable(Len(players))
          /\ Ready => \A res \in CallResults(Lists(1)) : res.g.spies = spies)
  /\ [][IF state = NOT_STARTED
        THEN spies' # spies => last'.op = "next_state" /\ state' # NOT_STARTED
        ELSE spies' = spies]_vars

\* A table of ten has played a mission with its four spies.
C12_Witness ==
  /\ state = MISSION_VOTE_RESULTS /\ Len(players) = MAX_PLAYERS
  /\ Len(spies) = 4 /\ Len(rounds) = 2

\* C13: register_player succeeds exactly when the phase is NOT_STARTED and
\* the user is not already in players, with no upper bound on the number of
\* players (an 11th registration still succeeds), and appends the user at
\* the end of players; players never contains duplicates and never changes
\* once the phase has left NOT_STARTED.
C13_RegistrationContract ==
  /\ [](~HasRepeat(players))
  /\ [](Ready =>
          \A user \in 1..(MaxRegistrants + 1) :
            LET res == register_player(game, user)
            IN IF state = NOT_STARTED /\ user \notin PlayerSet
               THEN /\ res.err = None
                    /\ res.g = [game EXCEPT !.players = Append(players, user)]
               ELSE res.err # None /\ res.g = game)
  /\ [][/\ state # NOT_STARTED => players' = players
        /\ players' # players =>
             /\ last'.op = "register_player" /\ last'.err = None
             /\ players' = Append(players, last'.user)
             /\ last'.user \notin PlayerSet
       ]_vars

\* An eleventh user has registered.
C13_Witness ==
  /\ state = NOT_STARTED /\ Len(players) = MAX_PLAYERS + 1
  /\ last.op = "register_player" /\ last.err = None

\* C14: next_state from NOT_STARTED fails, assigning no spies and opening no
\* round, whenever fewer than 5 or more than 10 players are registered; with
\* 5..10 players it assigns the spies, appends round 1 with winning_count 1
\* and sets the phase to PROPOSAL_PENDING; so every state past NOT_STARTED
\* has between 5 and 10 players.
C14_StartNeedsFiveToTen ==
  /\ [](state # NOT_STARTED => Len(players) \in 5..10)
  /\ [](state = NOT_STARTED /\ Ready =>
          IF Len(players) < 5 \/ Len(players) > 10
          THEN \* whatever the generator would draw
               LET res == next_state(game, [i \in 1..Len(players) |-> i])
               IN res.err # None /\ res.g = game
          ELSE \A rnd \in Draws(Len(players), SpiesAtTable(Len(players))) :
                 LET res == next_state(game, rnd)
                 IN /\ res.err = None
                    /\ res.g.state = PROPOSAL_PENDING
                    /\ res.g.rounds =
                         <<[winning_count |-> 1, votes |-> << >>,
                            ballots |-> EmptyDict]>>
                    /\ res.g.spies = [i \in 1..Len(rnd) |-> players[rnd[i]]]
                    /\ res.g.players = players)
  /\ [][state = NOT_STARTED /\ last'.op = "next_state" =>
          IF Len(players) < 5 \/ Len(players) > 10
          THEN /\ last'.err # None
               /\ state' = NOT_STARTED /\ spies' = << >> /\ rounds' = << >>
          ELSE /\ last'.err = None
               /\ state' = PROPOSAL_PENDING
               /\ Len(spies') = SpiesAtTable(Len(players))
               /\ rounds' = <<[winning_count |-> 1, votes |-> << >>,
                               ballots |-> EmptyDict]>>
               /\ players' = players
       ]_vars

\* The start of a game of eleven has been refused.
C14_Witness ==
  /\ state = NOT_STARTED /\ Len(players) = MAX_PLAYERS + 1
  /\ spies = << >> /\ rounds = << >>
  /\ last.op = "next_state" /\ last.err # None

\* C15: every round is created with winning_count 2 exactly when the game
\* has at least 7 players and the round is the fourth one, and with
\* winning_count 1 otherwise; in a fourth round of 7 or more players whose
\* mission ballot completes, exactly one black ballot leaves the round a
\* resistance win and two black ballots make it a spy win.
C15_TwoBlacksInFourthRound ==
  /\ \A i \in 1..Len(rounds) :
        rounds[i].winning_count =
          IF Len(players) >= 7 /\ i = 4 THEN 2 ELSE 1
  /\ Len(players) >= 7 /\ MissionCompleted(4) =>
        /\ Blacks(rounds[4]) = 1 => Round_outcome(rounds[4])
        /\ Blacks(rounds[4]) >= 2 => ~Round_outcome(rounds[4])

\* The players who approve and who reject in the last Vote of the round.
Approving == {u \in PlayerSet : last_vote(rounds[Len(rounds)]).ballots[u]}
Rejecting == {u \in PlayerSet : ~last_vote(rounds[Len(rounds)]).ballots[u]}

\* C16: Vote.outcome is approval exactly when the number of True ballots is
\* strictly greater than the number of False ballots; equal counts (with 6,
\* 8 or 10 players) resolve to rejection; 3 approve / 2 reject is approved,
\* 2 approve / 3 reject and 3 / 3 are rejected.
C16_StrictMajorityApproves ==
  /\ [](state = PARTY_VOTE_RESULTS =>
          LET approve == Cardinality(Approving)
              reject == Cardinality(Rejecting)
              approved == Vote_outcome(current_vote(game))
          IN /\ approved <=> approve > reject
             /\ approve = reject => ~approved
             /\ approve = 3 /\ reject = 2 => approved
             /\ approve = 2 /\ reject = 3 => ~approved
             /\ approve = 3 /\ reject = 3 => ~approved)
  /\ [][state = PARTY_VOTE_RESULTS /\ last'.op = "next_state" =>
          (state' = MISSION_VOTE_IN_PROGRESS
             <=> Cardinality(Approving) > Cardinality(Rejecting))
       ]_vars

\* A tie of three against three has sent the proposal back.
C16_Witness ==
  /\ state = PROPOSAL_PENDING /\ last.op = "next_state" /\ Len(rounds) = 1
  /\ Cardinality(Approving) = 3 /\ Cardinality(Rejecting) = 3

VotePhases ==
  {PARTY_VOTE_IN_PROGRESS, PARTY_VOTE_RESULTS,
   MISSION_VOTE_IN_PROGRESS, MISSION_VOTE_RESULTS}

\* C17: the queries current_round, current_vote, current_party,
\* current_party_size, current_winning_count, leader and outcome are defined
\* in every reachable state: whenever the phase is neither NOT_STARTED nor
\* GAME_OVER, rounds has 1..5 entries and the player count is a key of
\* PARTY_SIZES (and the leader cursor an index of players), and whenever the
\* phase is one of the four vote phases the current round has at least one
\* Vote, so every query returns a value of its type or None.
C17_QueriesDefined ==
  /\ state \notin {NOT_STARTED, GAME_OVER} =>
       /\ Len(rounds) \in 1..5
       /\ Len(players) \in DOMAIN PARTY_SIZES
       /\ Len(rounds) \in DOMAIN PARTY_SIZES[Len(players)]
       /\ leader_idx \in (0 - Len(players))..(Len(players) - 1)
       /\ current_round(game) = rounds[Len(rounds)]
       /\ current_party_size(game) \in 2..5
       /\ current_winning_count(game) \in 1..2
       /\ leader(game) \in PlayerSet
  /\ state \in VotePhases =>
       /\ Len(current_round(game).votes) >= 1
       /\ last_vote(current_round(game)) \in
            {rounds[Len(rounds)].votes[j] : j \in 1..Len(rounds[Len(rounds)].votes)}
       /\ current_party(game) = rounds[Len(rounds)].votes[Len(rounds[Len(rounds)].votes)].party
  /\ state \in {PARTY_VOTE_IN_PROGRESS, PARTY_VOTE_RESULTS} =>
       current_vote(game) = rounds[Len(rounds)].votes[Len(rounds[Len(rounds)].votes)]
  /\ state \in {NOT_STARTED, GAME_OVER} =>
       /\ current_round(game) = None /\ current_party_size(game) = None
       /\ current_winning_count(game) = None /\ leader(game) = None
  /\ state \notin VotePhases => current_party(game) = None
  /\ state \notin {PARTY_VOTE_IN_PROGRESS, PARTY_VOTE_RESULTS} =>
       current_vote(game) = None
  /\ outcome(game) \in {None, True, False}

\* The fifth round is at its party vote, the leader's seat having gone
\* round the table.
C17_Witness ==
  /\ state = PARTY_VOTE_RESULTS /\ Len(rounds) = 5
  /\ leader_idx = 3 /\ leader(game) = players[4]

\* C18: the leader cursor advances by exactly one seat modulo the player
\* count on each next_state from PARTY_VOTE_RESULTS with a rejected vote
\* (whether or not the round is thereby forfeited) and on each next_state
\* from MISSION_VOTE_RESULTS, and is left unchanged by every other
\* operation, including next_state after an approved vote, propose_party,
\* vote_party and vote_mission.
C18_LeaderRotation ==
  /\ [](Ready =>
          /\ \A u \in Users :
                /\ register_player(game, u).g.leader_idx = leader_idx
                /\ \A party \in Lists(IF state = PROPOSAL_PENDING THEN 3 ELSE 1) :
                      propose_party(game, u, party).g.leader_idx = leader_idx
                /\ \A ballot \in BOOLEAN :
                      /\ vote_party(game, u, ballot).g.leader_idx = leader_idx
                      /\ vote_mission(game, u, ballot).g.leader_idx = leader_idx
          /\ state # NOT_STARTED =>
               next_state(game, << >>).g.leader_idx =
                 IF \/ state = MISSION_VOTE_RESULTS
                    \/ /\ state = PARTY_VOTE_RESULTS
                       /\ ~Vote_outcome(current_vote(game))
                 THEN (leader_idx + 1) % Len(players)
                 ELSE leader_idx)
  /\ [][leader_idx' =
          IF /\ last'.op = "next_state" /\ last'.err = None
             /\ \/ state = MISSION_VOTE_RESULTS
                \/ /\ state = PARTY_VOTE_RESULTS
                   /\ ~Vote_outcome(current_vote(game))
          THEN (leader_idx + 1) % Len(players)
          ELSE leader_idx
       ]_vars

\* The lead has gone round the table and is back at the first seat.
C18_Witness ==
  /\ state = PROPOSAL_PENDING /\ last.op = "next_state" /\ last.err = None
  /\ leader_idx = 0 /\ TotalVotes(rounds) >= Len(players) + 1

\* list' is list, or list with one element appended, or list with its last
\* element replaced.
GrowsAtEnd(list, list2) ==
  /\ Len(list2) \in {Len(list), Len(list) + 1}
  /\ \A i \in 1..(Len(list) - 1) : list2[i] = list[i]
  /\ Len(list2) = Len(list) + 1 /\ Len(list) > 0 => list2[Len(list)] = list[Len(list)]

\* C19: in every reachable state rounds has at most 5 entries and every
\* round has at most 5 Votes; rounds and each round's vote list only ever
\* grow by appending at the end, and only the last round and its last Vote
\* are ever modified.
C19_AppendOnly ==
  /\ [](/\ Len(rounds) <= 5
        /\ \A i \in 1..Len(rounds) : Len(rounds[i].votes) <= 5)
  /\ [][/\ GrowsAtEnd(rounds, rounds')
        /\ Len(rounds') > Len(rounds) =>
             rounds'[Len(rounds')] =
               [winning_count |-> rounds'[Len(rounds')].winning_count,
                votes |-> << >>, ballots |-> EmptyDict]
        /\ Len(rounds') = Len(rounds) /\ Len(rounds) > 0 =>
             LET r == rounds[Len(rounds)]
                 r2 == rounds'[Len(rounds)]
             IN /\ r2.winning_count = r.winning_count
                /\ GrowsAtEnd(r.votes, r2.votes)
                /\ Len(r2.votes) > Len(r.votes) =>
                     /\ r2.votes[Len(r2.votes)].ballots = EmptyDict
                     /\ r2.ballots = r.ballots
                /\ Len(r2.votes) = Len(r.votes) /\ Len(r.votes) > 0 =>
                     r2.votes[Len(r.votes)].party = r.votes[Len(r.votes)].party
       ]_vars

\* A round has been fought to the vote limit, and the next one is at its
\* second proposal.
C19_Witness ==
  /\ Len(rounds) = 2 /\ Len(rounds[1].votes) = VOTE_LIMIT
  /\ Len(rounds[2].votes) = 2 /\ last.op = "propose_party" /\ last.err = None

\* The members of the party of the last Vote of round r.
PartyOf(r) == {last_vote(r).party[i] : i \in 1..Len(last_vote(r).party)}

\* C20: the keys of each round's mission ballots are members of the party
\* of that round's last Vote, each such player has at most one ballot (a
\* recorded ballot is never replaced), and vote_mission by a registered
\* player who is not in the current party, or who has already voted in this
\* round, fails and records nothing.
C20_MissionBallotsOfParty ==
  /\ [](\A i \in 1..Len(rounds) :
          DOMAIN rounds[i].ballots # {} =>
            /\ rounds[i].votes # << >>
            /\ DOMAIN rounds[i].ballots \subseteq PartyOf(rounds[i]))
  /\ [](state = MISSION_VOTE_IN_PROGRESS /\ Ready =>
          \A u \in PlayerSet : \A ballot \in BOOLEAN :
            \/ u \in PartyOf(current_round(game))
                 /\ u \notin DOMAIN current_round(game).ballots
            \/ /\ vote_mission(game, u, ballot).err # None
               /\ vote_mission(game, u, ballot).g = game)
  /\ [][\A i \in 1..Len(rounds) :
          /\ \A u \in DOMAIN rounds[i].ballots :
                /\ u \in DOMAIN rounds'[i].ballots
                /\ rounds'[i].ballots[u] = rounds[i].ballots[u]
          /\ rounds'[i].ballots # rounds[i].ballots =>
                /\ i = Len(rounds) /\ last'.op = "vote_mission"
                /\ last'.user \in PartyOf(rounds[i])
                /\ last'.user \notin DOMAIN rounds[i].ballots
                /\ DOMAIN rounds'[i].ballots =
                     DOMAIN rounds[i].ballots \cup {last'.user}
       ]_vars

\* A player outside the party tried to vote on a mission that has a ballot.
C20_Witness ==
  /\ state = MISSION_VOTE_IN_PROGRESS
  /\ DOMAIN rounds[Len(rounds)].ballots # {}
  /\ last.op = "vote_mission" /\ last.err = "Only party members can vote!"
  /\ last.user \in PlayerSet

\* The completed Votes of rounds rs are the same Votes in rounds rs2.
CompletedKept(rs, rs2) ==
  \A i \in 1..Len(rs) : \A j \in 1..Len(rs[i].votes) :
    Complete(rs[i].votes[j]) =>
      /\ i <= Len(rs2) /\ j <= Len(rs2[i].votes)
      /\ rs2[i].votes[j].party = rs[i].votes[j].party
      /\ rs2[i].votes[j].ballots = rs[i].votes[j].ballots

\* C21: once a Vote holds a ballot from every registered player, its party
\* and its ballots are never changed by any later operation: no further
\* vote_party, propose_party, vote_mission or next_state call alters a
\* completed Vote.
C21_CompletedVoteIsFrozen ==
  /\ [](Ready /\ state # NOT_STARTED =>
          /\ \A u \in Users :
                /\ \A party \in Lists(IF state = PROPOSAL_PENDING THEN 3 ELSE 1) :
                      CompletedKept(rounds, propose_party(game, u, party).g.rounds)
                /\ \A ballot \in BOOLEAN :
                      /\ CompletedKept(rounds, vote_party(game, u, ballot).g.rounds)
                      /\ CompletedKept(rounds, vote_mission(game, u, ballot).g.rounds)
          /\ CompletedKept(rounds, next_state(game, << >>).g.rounds))
  /\ [][CompletedKept(rounds, rounds')]_vars

\* A ballot was tried on a Vote whose results are in.
C21_Witness ==
  /\ state = PARTY_VOTE_RESULTS /\ Complete(current_vote(game))
  /\ last.op = "vote_party" /\ last.err = "Party vote not in progress!"

\* The Vote holds a ballot of every player, with strictly more approvals
\* than rejections.
Carried(v) ==
  /\ Complete(v)
  /\ Cardinality({u \in PlayerSet : v.ballots[u]})
       > Cardinality({u \in PlayerSet : ~v.ballots[u]})

\* C22: the phase MISSION_VOTE_IN_PROGRESS is entered only by next_state
\* from PARTY_VOTE_RESULTS when the current round's last Vote holds ballots
\* of all players with strictly more approvals than rejections; hence a
\* round has mission ballots only if its last Vote was approved, and
\* rejected proposals never lead to a mission ballot.
C22_MissionOnlyAfterApproval ==
  /\ [](\A i \in 1..Len(rounds) :
          /\ DOMAIN rounds[i].ballots # {} =>
               rounds[i].votes # << >> /\ Carried(last_vote(rounds[i]))
          /\ i = Len(rounds) /\ state \in {MISSION_VOTE_IN_PROGRESS,
                                           MISSION_VOTE_RESULTS} =>
               Carried(last_vote(rounds[i])))
  /\ [](Ready /\ state # MISSION_VOTE_IN_PROGRESS =>
          /\ \A u \in Users :
                /\ register_player(game, u).g.state # MISSION_VOTE_IN_PROGRESS
                /\ \A party \in Lists(IF state = PROPOSAL_PENDING THEN 3 ELSE 1) :
                      propose_party(game, u, party).g.state
                        # MISSION_VOTE_IN_PROGRESS
                /\ \A ballot \in BOOLEAN :
                      /\ vote_party(game, u, ballot).g.state
                           # MISSION_VOTE_IN_PROGRESS
                      /\ vote_mission(game, u, ballot).g.state
                           # MISSION_VOTE_IN_PROGRESS
          /\ state # NOT_STARTED =>
               (next_state(game, << >>).g.state = MISSION_VOTE_IN_PROGRESS
                  <=> state = PARTY_VOTE_RESULTS /\ Carried(current_vote(game))))
  /\ [][state # MISSION_VOTE_IN_PROGRESS /\ state' = MISSION_VOTE_IN_PROGRESS =>
          /\ state = PARTY_VOTE_RESULTS /\ last'.op = "next_state"
          /\ Carried(current_vote(game))
          /\ rounds' = rounds
       ]_vars

\* A mission vote has opened on the fifth proposal of a round, the four
\* before it rejected.
C22_Witness ==
  /\ state = MISSION_VOTE_IN_PROGRESS /\ last.op = "next_state"
  /\ Len(rounds[Len(rounds)].votes) = VOTE_LIMIT
  /\ rounds[Len(rounds)].ballots = EmptyDict
  /\ ~Vote_outcome(rounds[Len(rounds)].votes[4])

\* Some call of some method, by some user with some argument, succeeds.
SomeCallSucceeds ==
  \/ next_state(game, << >>).err = None
  \/ \E u \in Users :
       \/ register_player(game, u).err = None
       \/ \E ballot \in BOOLEAN :
            \/ vote_party(game, u, ballot).err = None
            \/ vote_mission(game, u, ballot).err = None
       \/ \E party \in Lists(IF state = PROPOSAL_PENDING THEN 3 ELSE 1) :
            propose_party(game, u, party).err = None

\* C23: every game that has left NOT_STARTED eventually reaches GAME_OVER
\* provided the operations that can succeed keep being taken; that is, no
\* reachable started state other than GAME_OVER is a deadlock in which
\* every operation fails for every user and argument.
C23_NoDeadlockBeforeGameOver ==
  state \notin {NOT_STARTED, GAME_OVER} => SomeCallSucceeds

\* The rotations of the lead so far: one for every rejected proposal that
\* next_state has passed, one for every mission that next_state has closed.
Rotations ==
  Cardinality(UNION {{<<i, j>> : j \in
                        {j \in 1..Len(rounds[i].votes) :
                           /\ Complete(rounds[i].votes[j])
                           /\ ~Vote_outcome(rounds[i].votes[j])
                           /\ ~(/\ state = PARTY_VOTE_RESULTS
                                /\ i = Len(rounds)
                                /\ j = Len(rounds[i].votes))}} :
                     i \in 1..Len(rounds)})
  + Cardinality({i \in 1..Len(rounds) : MissionCompleted(i) /\ Ended(i)})

\* C24: in every phase other than NOT_STARTED and GAME_OVER the leader is a
\* registered player; the leader cursor starts at -1 and is not rotated when
\* the game starts, so the leader of the first proposal of round 1 is the
\* last player in registration order, and after the k-th rotation (k >= 1)
\* the leader is players[(k-1) mod n].
C24_LeaderInRegistrationOrder ==
  LET k == Rotations
      seat == IF k = 0 THEN Len(players) ELSE ((k - 1) % Len(players)) + 1
  IN /\ state = NOT_STARTED => leader_idx = -1
     /\ state # NOT_STARTED =>
          leader_idx = IF k = 0 THEN -1 ELSE (k - 1) % Len(players)
     /\ state \notin {NOT_STARTED, GAME_OVER} =>
          leader(game) \in PlayerSet /\ leader(game) = players[seat]
     /\ last.op = "propose_party" /\ last.err = None =>
          last.user = players[seat]

\* After six rotations at a table of five the first player leads again and
\* has made a proposal.
C24_Witness ==
  /\ state = PARTY_VOTE_IN_PROGRESS /\ Rotations = Len(players) + 1
  /\ last.op = "propose_party" /\ last.err = None /\ last.user = players[1]

====
